---- MODULE Spec2Model ----
(***************************************************************************)
(* Model of libbpfgo's BPFProg (prog.go): pin/unpin, setters, the attach   *)
(* operations with the module's link list, and the test-run facility.      *)
(*                                                                         *)
(* Strings are sequences of tokens (a character or a chunk of text), so    *)
(* that slicing, concatenation and replacement are computed, not assumed.  *)
(* Every call into libbpf, the kernel or the Go runtime whose result the   *)
(* binding cannot decide is a nondeterministic choice among its outcomes.  *)
(***************************************************************************)
EXTENDS Integers, Sequences, FiniteSets, TLC

\* Bound on the length of Module.links reached by the model.
MaxLinks == 1

VARIABLES
    links,        \* Module.links: the module's list of *BPFLink
    pinnedPath,   \* BPFProg.pinnedPath, per program
    pins,         \* bpffs: the absolute paths at which each program is pinned
    opts,         \* the caller's RunOpts structure handed to Run
    ret,          \* what the last operation did and returned
    goroutines    \* the position and locals of each goroutine inside an attach

vars == <<links, pinnedPath, pins, opts, ret, goroutines>>

----------------------------------------------------------------------------
\* Values

\* The programs of one module; Name() of a program is its token.
Progs == {"p1", "p2"}

Name(p) == <<p>>

\* errno values a failing libbpf call may report (EPERM, ENOENT), the errno of
\* a failing open (ENOENT) and of a failing allocation (ENOMEM).
Errnos == {1, 2}

OpenErrnos == {2}

AllocErrnos == {12}

\* A nil *C.struct_bpf_link, and the non-nil handles libbpf hands out.
NilHandle == "NULL"

LinkHandles == {"bpf_link"}

\* A Go error: the message, the text of its operand, and the syscall.Errno
\* that errors.Unwrap recovers (0 when the chain holds none).
NilErr == [msg |-> "", text |-> 0, wrapped |-> 0]

\* fmt.Errorf with the operand formatted by %w (wrapping) or by %v (text only).
Errorf(msg, verb, errno) ==
    [msg |-> msg, text |-> errno, wrapped |-> IF verb = "%w" THEN errno ELSE 0]

\* An error of the Go standard library that carries no errno (filepath.Abs,
\* net.InterfaceByName).
GoErr(msg) == [msg |-> msg, text |-> 0, wrapped |-> 0]

\* syscall.Errno(-retC)
Errno(retC) == -retC

\* A nil *bpfLinkLegacy and a nil *BPFLink.
NilLegacy == [attachType |-> "nil", cgroupDir |-> <<>>]

NilLink == [link |-> NilHandle, prog |-> "nil", linkType |-> "nil",
            eventName |-> <<>>, legacy |-> NilLegacy]

BPFLink(linkC, p, linkType, eventName, legacy) ==
    [link |-> linkC, prog |-> p, linkType |-> linkType,
     eventName |-> eventName, legacy |-> legacy]

\* Outcomes of a libbpf call returning a link: a handle, or NULL with errno set.
NativeLink ==
    {[linkC |-> h, errno |-> 0] : h \in LinkHandles}
        \cup {[linkC |-> NilHandle, errno |-> e] : e \in Errnos}

\* Outcomes of a libbpf call returning an int: 0, or -errno with errno set.
NativeRet ==
    {[retC |-> 0, errno |-> 0]} \cup {[retC |-> -e, errno |-> e] : e \in Errnos}

\* Outcomes of a cgo_*_opts_new call: an allocation, or NULL with errno set.
NativeOpts ==
    {[optsC |-> "opts", errno |-> 0]}
        \cup {[optsC |-> "NULL", errno |-> e] : e \in AllocErrnos}

\* One native call made by an operation, with the errno it reported (0: none).
Call(fn, errno) == [fn |-> fn, errno |-> errno]

\* strings.ReplaceAll(s, "/", "-")
ReplaceAll(s) == [i \in 1..Len(s) |-> IF s[i] = "/" THEN "-" ELSE s[i]]

\* s[1:], defined for a non-empty string (Go panics on an empty one).
Slice1(s) == SubSeq(s, 2, Len(s))

\* The arguments of an operation that takes none.
NoArgs == <<>>

\* The result record of an operation: its name, receiver and arguments, the
\* link and error it returned, the native calls it made, whether it panicked
\* instead of returning, and (Run) the native structure after the call.
Result(op, p, args, link, err, calls, panicked) ==
    [op |-> op, prog |-> p, args |-> args, link |-> link, err |-> err,
     calls |-> calls, panicked |-> panicked, native |-> NoArgs]

Return(op, p, args, link, err, calls) ==
    ret' = Result(op, p, args, link, err, calls, FALSE)

\* No call is in progress and no result is pending: the caller may call.
NoResult == Result("none", "nil", NoArgs, NilLink, NilErr, <<>>, FALSE)

Idle == ret.op = "none"

Panic(op, p, args, calls) ==
    ret' = Result(op, p, args, NilLink, NilErr, calls, TRUE)

\* The goroutines that call attach operations at the same time, and the
\* native link handle each one's attach call allocates.
Goroutines == {"g1", "g2"}

HandleOf == [g \in Goroutines |-> IF g = "g1" THEN "bpf_link_1" ELSE "bpf_link_2"]

\* A goroutine that has not called yet: where it is, the operation it runs, the
\* bpfLink it built, the slice its append computed, and what it returned.
NotCalled ==
    [pc |-> "start", op |-> "none", bpfLink |-> NilLink, appended |-> <<>>,
     link |-> NilLink, err |-> NilErr]

----------------------------------------------------------------------------
\* Inputs

\* Working directory of the process.
Cwd == <<"/", "w">>

\* cgroup v2 directory paths handed to the cgroup operations.
CgroupPaths == {<<>>, <<"/", "sys", "/", "cg">>}

AttachTypes == {"BPFAttachTypeCgroupInetIngress", "BPFAttachTypeCgroupInetEgress"}

\* Network device names handed to the XDP operations.
Devices == {<<"eth0">>}

XDPFlagsInputs == {"XDPFlagsReplace"}

\* Tracepoint categories and names, raw tracepoint events, kprobe symbols.
TpCategories == {<<"syscalls">>}

TpNames == {<<"sys_enter_openat">>}

Symbols == {<<"do_sys_open">>}

Offsets == {64}

PerfFds == {7}

NetnsPaths == {<<>>, <<"/", "proc", "/", "net">>}

IterOptsInputs ==
    {[MapFd |-> 5, CgroupIterOrder |-> 0, CgroupFd |-> 0, CgroupId |-> 0,
      Tid |-> 0, Pid |-> 0, PidFd |-> 0]}

\* Uprobe and USDT targets: a relative path to a binary, a pid (-1: every
\* process), an offset, a list of offsets and of cookies, a provider, a marker.
BinaryPaths == {<<"bin", "/", "app">>}

Pids == {-1}

OffsetLists == {<<64, 128>>}

CookieLists == {<<>>}

Providers == {<<"prov">>}

Markers == {<<"mark">>}

\* Target descriptors and flags of the fd-based attach.
TargetFds == {9}

AttachFlags == {"BPFFNone"}

ProgTypes == {"BPFProgTypeKprobe"}

FuncNames == {<<"vfs_read">>}

\* The program and the path of the pin operations checked together with the
\* other operations.
DefaultProg == "p1"

DefaultPinPaths == {<<"pin">>}

\* Paths handed to Pin and Unpin: relative, the same file by its absolute
\* name, and another absolute one.
PinPaths == {<<"pin">>, <<"/", "w", "/", "pin">>, <<"/", "sys", "/", "q">>}

\* A Go []byte: nil or not, its length and its capacity.
NilSlice == [nil |-> TRUE, len |-> 0, cap |-> 0]

Make(len, cap) == [nil |-> FALSE, len |-> len, cap |-> cap]

\* The buffer size of Run's documented example, and the size of a context.
ExampleSize == 14

CtxSize == 4

\* The RunOpts of Run's documented example.
ExampleRunOpts ==
    [DataIn |-> Make(0, ExampleSize), DataOut |-> Make(0, ExampleSize),
     DataSizeIn |-> ExampleSize, DataSizeOut |-> ExampleSize,
     CtxIn |-> NilSlice, CtxOut |-> NilSlice, CtxSizeIn |-> 0, CtxSizeOut |-> 0,
     RetVal |-> 0, Repeat |-> 1, Duration |-> 0, Flags |-> 0, CPU |-> 0,
     BatchSize |-> 0]

\* The RunOpts a caller starts from: every buffer nil, allocated empty with
\* room for the size it declares, or allocated full; a declared size never
\* exceeds the capacity of its buffer.
RunOptsInputs ==
    {[ExampleRunOpts EXCEPT !.DataIn = di, !.DataOut = do,
                            !.DataSizeIn = si, !.DataSizeOut = so,
                            !.CtxIn = ci, !.CtxOut = co,
                            !.CtxSizeIn = IF ci.nil THEN 0 ELSE CtxSize,
                            !.CtxSizeOut = IF co.nil THEN 0 ELSE CtxSize]
     : di \in {NilSlice, Make(0, ExampleSize), Make(ExampleSize, ExampleSize)},
       do \in {NilSlice, Make(0, ExampleSize), Make(ExampleSize, ExampleSize)},
       si \in {0, ExampleSize}, so \in {0, ExampleSize},
       ci \in {NilSlice, Make(CtxSize, CtxSize)},
       co \in {NilSlice, Make(CtxSize, CtxSize)}}

\* Values the kernel may report for a test run: the program's return value
\* and the run's duration in nanoseconds.
RetVals == {0, 1}

Durations == {250}

----------------------------------------------------------------------------
\* The environment

\* syscall.Open(path, flags, 0): a descriptor, or -1 with an errno. The empty
\* path names no file (ENOENT).
Open(path) ==
    IF path = <<>>
    THEN {[fd |-> -1, errno |-> 2]}
    ELSE {[fd |-> 3, errno |-> 0]} \cup {[fd |-> -1, errno |-> e] : e \in OpenErrnos}

\* net.InterfaceByName(deviceName): the interface index, or an error.
InterfaceByName(deviceName) ==
    {[Index |-> 1, err |-> NilErr],
     [Index |-> 0, err |-> GoErr("route ip+net: no such network interface")]}

\* filepath.IsAbs
IsAbs(path) == Len(path) > 0 /\ path[1] = "/"

\* filepath.Abs(path) on a clean path: the path itself when absolute, else the
\* working directory joined with it; os.Getwd may fail for a relative path.
Abs(path) ==
    IF IsAbs(path)
    THEN {[path |-> path, err |-> NilErr]}
    ELSE {[path |-> IF path = <<>> THEN Cwd ELSE Cwd \o <<"/">> \o path,
           err |-> NilErr],
          [path |-> <<>>, err |-> GoErr("getwd")]}

----------------------------------------------------------------------------
\* Attach operations

\* getCgroupDirFD: the descriptor, or 0 and the wrapped error of syscall.Open.
getCgroupDirFD(cgroupV2DirPath) ==
    {IF o.fd < 0
     THEN [fd |-> 0,
           err |-> Errorf("failed to open cgroupv2 directory path", "%w", o.errno),
           call |-> Call("syscall.Open", o.errno)]
     ELSE [fd |-> o.fd, err |-> NilErr, call |-> Call("syscall.Open", 0)]
     : o \in Open(cgroupV2DirPath)}

\* One outcome of a call that yields (*BPFLink, error), or panics.
Outcome(link, err, calls, panicked) ==
    [link |-> link, err |-> err, calls |-> calls, panicked |-> panicked]

\* p.module.links = append(p.module.links, bpfLink)
AppendLink(bpfLink) ==
    /\ Len(links) < MaxLinks
    /\ links' = Append(links, bpfLink)

\* The outcomes of one run of AttachCgroup's body up to the link it builds.
AttachCgroupOutcomes(p, cgroupV2DirPath) ==
    UNION {
        IF f.err # NilErr
        THEN {Outcome(NilLink, f.err, <<f.call>>, FALSE)}
        ELSE {LET calls == <<f.call, Call("bpf_program__attach_cgroup", n.errno)>> IN
              IF n.linkC = NilHandle
              THEN Outcome(NilLink,
                           Errorf("failed to attach cgroup on cgroupv2", "%w", n.errno),
                           calls, FALSE)
              ELSE IF Len(cgroupV2DirPath) < 1
              THEN Outcome(NilLink, NilErr, calls, TRUE)
              ELSE Outcome(BPFLink(n.linkC, p, "Cgroup",
                                   <<"cgroup-">> \o Name(p) \o <<"-">>
                                       \o ReplaceAll(Slice1(cgroupV2DirPath)),
                                   NilLegacy),
                           NilErr, calls, FALSE)
              : n \in NativeLink}
        : f \in getCgroupDirFD(cgroupV2DirPath)}

\* Mutant: whatever the attempt built, nil included, is appended.
CallAttachCgroupAlwaysAppends(p, cgroupV2DirPath, o) ==
    /\ o \in AttachCgroupOutcomes(p, cgroupV2DirPath)
    /\ IF Len(links) < MaxLinks THEN AppendLink(o.link) ELSE UNCHANGED links

\* A call of AttachCgroup with outcome o: a link it built is appended to the
\* module's list before it returns.
CallAttachCgroup(p, cgroupV2DirPath, o) ==
    /\ o \in AttachCgroupOutcomes(p, cgroupV2DirPath)
    /\ IF o.link # NilLink THEN AppendLink(o.link) ELSE UNCHANGED links

AttachCgroup(p, cgroupV2DirPath) ==
    /\ Idle
    /\ \E o \in AttachCgroupOutcomes(p, cgroupV2DirPath) :
        /\ CallAttachCgroup(p, cgroupV2DirPath, o)
        /\ ret' = Result("AttachCgroup", p, [cgroupV2DirPath |-> cgroupV2DirPath],
                         o.link, o.err, o.calls, o.panicked)
        /\ UNCHANGED <<pinnedPath, pins, opts, goroutines>>

\* Mutant: the legacy attach is tried a second time when it fails.
AttachCgroupLegacyFallbackRetry(p, cgroupV2DirPath, attachType) ==
    UNION {
        IF f.err # NilErr
        THEN {Outcome(NilLink, f.err, <<f.call>>, FALSE)}
        ELSE {LET calls == IF r.retC < 0
                           THEN <<f.call,
                                  Call("cgo_bpf_prog_attach_cgroup_legacy", r.errno),
                                  Call("cgo_bpf_prog_attach_cgroup_legacy", r.errno)>>
                           ELSE <<f.call,
                                  Call("cgo_bpf_prog_attach_cgroup_legacy", 0)>> IN
              IF r.retC < 0
              THEN Outcome(NilLink,
                           Errorf("failed to attach (legacy) program", "%w", r.errno),
                           calls, FALSE)
              ELSE IF Len(cgroupV2DirPath) < 1
              THEN Outcome(NilLink, NilErr, calls, TRUE)
              ELSE Outcome(BPFLink(NilHandle, p, "CgroupLegacy",
                                   <<"cgroup-">> \o Name(p) \o <<"-">>
                                       \o ReplaceAll(Slice1(cgroupV2DirPath)),
                                   [attachType |-> attachType,
                                    cgroupDir |-> cgroupV2DirPath]),
                           NilErr, calls, FALSE)
              : r \in NativeRet}
        : f \in getCgroupDirFD(cgroupV2DirPath)}

\* Mutant: the legacy metadata records a fixed attach type.
AttachCgroupLegacyFallbackFixedType(p, cgroupV2DirPath, attachType) ==
    UNION {
        IF f.err # NilErr
        THEN {Outcome(NilLink, f.err, <<f.call>>, FALSE)}
        ELSE {LET calls == <<f.call,
                             Call("cgo_bpf_prog_attach_cgroup_legacy", r.errno)>> IN
              IF r.retC < 0
              THEN Outcome(NilLink,
                           Errorf("failed to attach (legacy) program", "%w", r.errno),
                           calls, FALSE)
              ELSE IF Len(cgroupV2DirPath) < 1
              THEN Outcome(NilLink, NilErr, calls, TRUE)
              ELSE Outcome(BPFLink(NilHandle, p, "CgroupLegacy",
                                   <<"cgroup-">> \o Name(p) \o <<"-">>
                                       \o ReplaceAll(Slice1(cgroupV2DirPath)),
                                   [attachType |-> "BPFAttachTypeCgroupInetIngress",
                                    cgroupDir |-> cgroupV2DirPath]),
                           NilErr, calls, FALSE)
              : r \in NativeRet}
        : f \in getCgroupDirFD(cgroupV2DirPath)}

\* AttachCgroupLegacy after its first attempt failed: the legacy attachment.
AttachCgroupLegacyFallback(p, cgroupV2DirPath, attachType) ==
    UNION {
        IF f.err # NilErr
        THEN {Outcome(NilLink, f.err, <<f.call>>, FALSE)}
        ELSE {LET calls == <<f.call,
                             Call("cgo_bpf_prog_attach_cgroup_legacy", r.errno)>> IN
              IF r.retC < 0
              THEN Outcome(NilLink,
                           Errorf("failed to attach (legacy) program", "%w", r.errno),
                           calls, FALSE)
              ELSE IF Len(cgroupV2DirPath) < 1
              THEN Outcome(NilLink, NilErr, calls, TRUE)
              ELSE Outcome(BPFLink(NilHandle, p, "CgroupLegacy",
                                   <<"cgroup-">> \o Name(p) \o <<"-">>
                                       \o ReplaceAll(Slice1(cgroupV2DirPath)),
                                   [attachType |-> attachType,
                                    cgroupDir |-> cgroupV2DirPath]),
                           NilErr, calls, FALSE)
              : r \in NativeRet}
        : f \in getCgroupDirFD(cgroupV2DirPath)}

\* Mutant: a first attempt that fails with EPERM is not followed by the
\* legacy attachment.
AttachCgroupLegacyNoFallback(p, cgroupV2DirPath, attachType) ==
    /\ Idle
    /\ \E first \in AttachCgroupOutcomes(p, cgroupV2DirPath) :
        /\ CallAttachCgroup(p, cgroupV2DirPath, first)
        /\ LET args == [cgroupV2DirPath |-> cgroupV2DirPath, attachType |-> attachType] IN
           IF first.panicked \/ first.err = NilErr \/ first.err.wrapped = 1
           THEN ret' = Result("AttachCgroupLegacy", p, args, first.link, first.err,
                              first.calls, first.panicked)
           ELSE \E o \in AttachCgroupLegacyFallback(p, cgroupV2DirPath, attachType) :
                    ret' = Result("AttachCgroupLegacy", p, args, o.link, o.err,
                                  first.calls \o o.calls, o.panicked)
        /\ UNCHANGED <<pinnedPath, pins, opts, goroutines>>

AttachCgroupLegacy(p, cgroupV2DirPath, attachType) ==
    /\ Idle
    /\ \E first \in AttachCgroupOutcomes(p, cgroupV2DirPath) :
        /\ CallAttachCgroup(p, cgroupV2DirPath, first)
        /\ LET args == [cgroupV2DirPath |-> cgroupV2DirPath, attachType |-> attachType] IN
           IF first.panicked \/ first.err = NilErr
           THEN ret' = Result("AttachCgroupLegacy", p, args, first.link, first.err,
                              first.calls, first.panicked)
           ELSE \E o \in AttachCgroupLegacyFallback(p, cgroupV2DirPath, attachType) :
                    ret' = Result("AttachCgroupLegacy", p, args, o.link, o.err,
                                  first.calls \o o.calls, o.panicked)
        /\ UNCHANGED <<pinnedPath, pins, opts, goroutines>>

DetachCgroupLegacy(p, cgroupV2DirPath, attachType) ==
    /\ Idle
    /\ \E f \in getCgroupDirFD(cgroupV2DirPath) :
        /\ LET args == [cgroupV2DirPath |-> cgroupV2DirPath, attachType |-> attachType] IN
           IF f.err # NilErr
           THEN Return("DetachCgroupLegacy", p, args, NilLink, f.err, <<f.call>>)
           ELSE \E r \in NativeRet :
                LET calls == <<f.call,
                               Call("cgo_bpf_prog_detach_cgroup_legacy", r.errno)>> IN
                IF r.retC < 0
                THEN Return("DetachCgroupLegacy", p, args, NilLink,
                            Errorf("failed to detach (legacy) program", "%w", r.errno),
                            calls)
                ELSE Return("DetachCgroupLegacy", p, args, NilLink, NilErr, calls)
        /\ UNCHANGED <<links, pinnedPath, pins, opts, goroutines>>

AttachGeneric(p) ==
    /\ Idle
    /\ \E n \in NativeLink :
        /\ LET calls == <<Call("bpf_program__attach", n.errno)>> IN
           IF n.linkC = NilHandle
           THEN Return("AttachGeneric", p, NoArgs, NilLink,
                       Errorf("failed to attach program", "%w", n.errno), calls)
           ELSE Return("AttachGeneric", p, NoArgs,
                       BPFLink(n.linkC, p, "Tracing", <<"tracing-">> \o Name(p),
                               NilLegacy),
                       NilErr, calls)
        /\ UNCHANGED <<links, pinnedPath, pins, opts, goroutines>>

AttachXDP(p, deviceName) ==
    /\ Idle
    /\ \E iface \in InterfaceByName(deviceName) :
        /\ LET args == [deviceName |-> deviceName] IN
           IF iface.err # NilErr
           THEN /\ Return("AttachXDP", p, args, NilLink, iface.err, <<>>)
                /\ UNCHANGED links
           ELSE \E n \in NativeLink :
                LET calls == <<Call("bpf_program__attach_xdp", n.errno)>> IN
                IF n.linkC = NilHandle
                THEN /\ Return("AttachXDP", p, args, NilLink,
                               Errorf("failed to attach xdp on device", "%w", n.errno),
                               calls)
                     /\ UNCHANGED links
                ELSE LET bpfLink == BPFLink(n.linkC, p, "XDP",
                                            <<"xdp-">> \o Name(p) \o <<"-">> \o deviceName,
                                            NilLegacy) IN
                     /\ AppendLink(bpfLink)
                     /\ Return("AttachXDP", p, args, bpfLink, NilErr, calls)
        /\ UNCHANGED <<pinnedPath, pins, opts, goroutines>>

AttachXDPLegacy(p, deviceName, flag) ==
    /\ Idle
    /\ \E o \in NativeOpts :
        /\ LET args == [deviceName |-> deviceName, flag |-> flag] IN
           IF o.optsC = "NULL"
           THEN Return("AttachXDPLegacy", p, args, NilLink,
                       Errorf("failed to create xdp attach opts", "%w", o.errno),
                       <<Call("cgo_bpf_xdp_attach_opts_new", o.errno)>>)
           ELSE \E iface \in InterfaceByName(deviceName) :
                IF iface.err # NilErr
                THEN Return("AttachXDPLegacy", p, args, NilLink, iface.err,
                            <<Call("cgo_bpf_xdp_attach_opts_new", 0)>>)
                ELSE \E r \in NativeRet :
                LET calls == <<Call("cgo_bpf_xdp_attach_opts_new", 0),
                               Call("bpf_xdp_attach", r.errno)>> IN
                IF r.retC < 0
                THEN Return("AttachXDPLegacy", p, args, NilLink,
                            Errorf("failed to attach xdp", "%w", r.errno), calls)
                ELSE Return("AttachXDPLegacy", p, args, NilLink, NilErr, calls)
        /\ UNCHANGED <<links, pinnedPath, pins, opts, goroutines>>

DetachXDPLegacy(p, deviceName, flag) ==
    /\ Idle
    /\ \E o \in NativeOpts :
        /\ LET args == [deviceName |-> deviceName, flag |-> flag] IN
           IF o.optsC = "NULL"
           THEN Return("DetachXDPLegacy", p, args, NilLink,
                       Errorf("failed to create xdp attach opts", "%w", o.errno),
                       <<Call("cgo_bpf_xdp_attach_opts_new", o.errno)>>)
           ELSE \E iface \in InterfaceByName(deviceName) :
                IF iface.err # NilErr
                THEN Return("DetachXDPLegacy", p, args, NilLink, iface.err,
                            <<Call("cgo_bpf_xdp_attach_opts_new", 0)>>)
                ELSE \E r \in NativeRet :
                LET calls == <<Call("cgo_bpf_xdp_attach_opts_new", 0),
                               Call("bpf_xdp_detach", r.errno)>> IN
                IF r.retC < 0
                THEN Return("DetachXDPLegacy", p, args, NilLink,
                            Errorf("failed to detach xdp", "%w", r.errno), calls)
                ELSE Return("DetachXDPLegacy", p, args, NilLink, NilErr, calls)
        /\ UNCHANGED <<links, pinnedPath, pins, opts, goroutines>>

AttachTracepoint(p, category, name) ==
    /\ Idle
    /\ \E n \in NativeLink :
        /\ LET args == [category |-> category, name |-> name]
               calls == <<Call("bpf_program__attach_tracepoint", n.errno)>> IN
           IF n.linkC = NilHandle
           THEN /\ Return("AttachTracepoint", p, args, NilLink,
                          Errorf("failed to attach tracepoint", "%w", n.errno), calls)
                /\ UNCHANGED links
           ELSE LET bpfLink == BPFLink(n.linkC, p, "Tracepoint", name, NilLegacy) IN
                /\ AppendLink(bpfLink)
                /\ Return("AttachTracepoint", p, args, bpfLink, NilErr, calls)
        /\ UNCHANGED <<pinnedPath, pins, opts, goroutines>>

AttachRawTracepoint(p, tpEvent) ==
    /\ Idle
    /\ \E n \in NativeLink :
        /\ LET args == [tpEvent |-> tpEvent]
               calls == <<Call("bpf_program__attach_raw_tracepoint", n.errno)>> IN
           IF n.linkC = NilHandle
           THEN /\ Return("AttachRawTracepoint", p, args, NilLink,
                          Errorf("failed to attach raw tracepoint", "%w", n.errno),
                          calls)
                /\ UNCHANGED links
           ELSE LET bpfLink == BPFLink(n.linkC, p, "RawTracepoint", tpEvent,
                                       NilLegacy) IN
                /\ AppendLink(bpfLink)
                /\ Return("AttachRawTracepoint", p, args, bpfLink, NilErr, calls)
        /\ UNCHANGED <<pinnedPath, pins, opts, goroutines>>

AttachLSM(p) ==
    /\ Idle
    /\ \E n \in NativeLink :
        /\ LET calls == <<Call("bpf_program__attach_lsm", n.errno)>> IN
           IF n.linkC = NilHandle
           THEN /\ Return("AttachLSM", p, NoArgs, NilLink,
                          Errorf("failed to attach lsm to program", "%w", n.errno),
                          calls)
                /\ UNCHANGED links
           ELSE LET bpfLink == BPFLink(n.linkC, p, "LSM", <<>>, NilLegacy) IN
                /\ AppendLink(bpfLink)
                /\ Return("AttachLSM", p, NoArgs, bpfLink, NilErr, calls)
        /\ UNCHANGED <<pinnedPath, pins, opts, goroutines>>

AttachPerfEvent(p, fd) ==
    /\ Idle
    /\ \E n \in NativeLink :
        /\ LET args == [fd |-> fd]
               calls == <<Call("bpf_program__attach_perf_event", n.errno)>> IN
           IF n.linkC = NilHandle
           THEN /\ Return("AttachPerfEvent", p, args, NilLink,
                          Errorf("failed to attach perf event to program", "%w",
                                 n.errno),
                          calls)
                /\ UNCHANGED links
           ELSE LET bpfLink == BPFLink(n.linkC, p, "PerfEvent", <<>>, NilLegacy) IN
                /\ AppendLink(bpfLink)
                /\ Return("AttachPerfEvent", p, args, bpfLink, NilErr, calls)
        /\ UNCHANGED <<pinnedPath, pins, opts, goroutines>>

\* The attachTo structure.
attachTo(symName, symAddr, isRet) ==
    [symName |-> symName, symAddr |-> symAddr, isRet |-> isRet]

\* Mutant: the link type ignores the return flag.
attachKprobeCommonAlwaysKprobe(op, p, a) ==
    /\ Idle
    /\ \E o \in NativeOpts :
        /\ IF o.optsC = "NULL"
           THEN /\ Return(op, p, a, NilLink,
                          Errorf("failed to create kprobe_opts of", "%v", o.errno),
                          <<Call("cgo_bpf_kprobe_opts_new", o.errno)>>)
                /\ UNCHANGED links
           ELSE \E n \in NativeLink :
                LET calls == <<Call("cgo_bpf_kprobe_opts_new", 0),
                               Call("bpf_program__attach_kprobe_opts", n.errno)>> IN
                IF n.linkC = NilHandle
                THEN /\ Return(op, p, a, NilLink,
                               Errorf("failed to attach to", "%v", n.errno), calls)
                     /\ UNCHANGED links
                ELSE LET linkType == "Kprobe"
                         eventName == IF a.symName = <<>>
                                      THEN <<ToString(a.symAddr)>>
                                      ELSE a.symName
                         bpfLink == BPFLink(n.linkC, p, linkType, eventName,
                                            NilLegacy) IN
                     /\ AppendLink(bpfLink)
                     /\ Return(op, p, a, bpfLink, NilErr, calls)
        /\ UNCHANGED <<pinnedPath, pins, opts, goroutines>>

\* attachKprobeCommon, on behalf of the exported operation op.
attachKprobeCommon(op, p, a) ==
    /\ Idle
    /\ \E o \in NativeOpts :
        /\ IF o.optsC = "NULL"
           THEN /\ Return(op, p, a, NilLink,
                          Errorf("failed to create kprobe_opts of", "%v", o.errno),
                          <<Call("cgo_bpf_kprobe_opts_new", o.errno)>>)
                /\ UNCHANGED links
           ELSE \E n \in NativeLink :
                LET calls == <<Call("cgo_bpf_kprobe_opts_new", 0),
                               Call("bpf_program__attach_kprobe_opts", n.errno)>> IN
                IF n.linkC = NilHandle
                THEN /\ Return(op, p, a, NilLink,
                               Errorf("failed to attach to", "%v", n.errno), calls)
                     /\ UNCHANGED links
                ELSE LET linkType == IF a.isRet THEN "Kretprobe" ELSE "Kprobe"
                         eventName == IF a.symName = <<>>
                                      THEN <<ToString(a.symAddr)>>
                                      ELSE a.symName
                         bpfLink == BPFLink(n.linkC, p, linkType, eventName,
                                            NilLegacy) IN
                     /\ AppendLink(bpfLink)
                     /\ Return(op, p, a, bpfLink, NilErr, calls)
        /\ UNCHANGED <<pinnedPath, pins, opts, goroutines>>

AttachKprobe(p, symbol) ==
    attachKprobeCommon("AttachKprobe", p, attachTo(symbol, 0, FALSE))

AttachKretprobe(p, symbol) ==
    attachKprobeCommon("AttachKretprobe", p, attachTo(symbol, 0, TRUE))

AttachKprobeOffset(p, offset) ==
    attachKprobeCommon("AttachKprobeOffset", p, attachTo(<<>>, offset, FALSE))

AttachKretprobeOnOffset(p, offset) ==
    attachKprobeCommon("AttachKretprobeOnOffset", p, attachTo(<<>>, offset, TRUE))

AttachNetns(p, networkNamespacePath) ==
    /\ Idle
    /\ \E f \in Open(networkNamespacePath) :
        /\ LET args == [networkNamespacePath |-> networkNamespacePath] IN
           IF f.fd < 0
           THEN /\ Return("AttachNetns", p, args, NilLink,
                          Errorf("failed to open network namespace path", "%w",
                                 f.errno),
                          <<Call("syscall.Open", f.errno)>>)
                /\ UNCHANGED links
           ELSE \E n \in NativeLink :
                LET calls == <<Call("syscall.Open", 0),
                               Call("bpf_program__attach_netns", n.errno)>> IN
                IF n.linkC = NilHandle
                THEN /\ Return("AttachNetns", p, args, NilLink,
                               Errorf("failed to attach network namespace", "%w",
                                      n.errno),
                               calls)
                     /\ UNCHANGED links
                ELSE IF Len(networkNamespacePath) < 1
                THEN /\ Panic("AttachNetns", p, args, calls)
                     /\ UNCHANGED links
                ELSE LET fileName == ReplaceAll(Slice1(networkNamespacePath))
                         bpfLink == BPFLink(n.linkC, p, "Netns",
                                            <<"netns-">> \o Name(p) \o <<"-">>
                                                \o fileName,
                                            NilLegacy) IN
                     /\ AppendLink(bpfLink)
                     /\ Return("AttachNetns", p, args, bpfLink, NilErr, calls)
        /\ UNCHANGED <<pinnedPath, pins, opts, goroutines>>

AttachIter(p, iterOpts) ==
    /\ Idle
    /\ \E o \in NativeOpts :
        /\ IF o.optsC = "NULL"
           THEN /\ Return("AttachIter", p, iterOpts, NilLink,
                          Errorf("failed to create iter_attach_opts to program", "%w",
                                 o.errno),
                          <<Call("cgo_bpf_iter_attach_opts_new", o.errno)>>)
                /\ UNCHANGED links
           ELSE \E n \in NativeLink :
                LET calls == <<Call("cgo_bpf_iter_attach_opts_new", 0),
                               Call("bpf_program__attach_iter", n.errno)>> IN
                IF n.linkC = NilHandle
                THEN /\ Return("AttachIter", p, iterOpts, NilLink,
                               Errorf("failed to attach iter to program", "%w",
                                      n.errno),
                               calls)
                     /\ UNCHANGED links
                ELSE LET bpfLink == BPFLink(n.linkC, p, "Iter",
                                            <<"iter-">> \o Name(p) \o <<"-">>
                                                \o <<ToString(iterOpts.MapFd)>>,
                                            NilLegacy) IN
                     /\ AppendLink(bpfLink)
                     /\ Return("AttachIter", p, iterOpts, bpfLink, NilErr, calls)
        /\ UNCHANGED <<pinnedPath, pins, opts, goroutines>>

\* doAttachUprobe: the outcomes, for the exported operation that calls it.
doAttachUprobe(prog, isUretprobe, pid, path, offset) ==
    {LET calls == <<Call("bpf_program__attach_uprobe", n.errno)>> IN
     IF n.linkC = NilHandle
     THEN Outcome(NilLink,
                  Errorf("failed to attach u(ret)probe to program", "%w", n.errno),
                  calls, FALSE)
     ELSE LET upType == IF isUretprobe THEN "Uretprobe" ELSE "Uprobe" IN
          Outcome(BPFLink(n.linkC, prog, upType,
                          path \o <<":", ToString(pid), ":", ToString(offset)>>,
                          NilLegacy),
                  NilErr, calls, FALSE)
     : n \in NativeLink}

AttachUprobe(p, pid, path, offset) ==
    /\ Idle
    /\ \E a \in Abs(path) :
        /\ LET args == [pid |-> pid, path |-> path, offset |-> offset] IN
           IF a.err # NilErr
           THEN Return("AttachUprobe", p, args, NilLink, a.err, <<>>)
           ELSE \E o \in doAttachUprobe(p, FALSE, pid, a.path, offset) :
                    Return("AttachUprobe", p, args, o.link, o.err, o.calls)
        /\ UNCHANGED <<links, pinnedPath, pins, opts, goroutines>>

AttachURetprobe(p, pid, path, offset) ==
    /\ Idle
    /\ \E a \in Abs(path) :
        /\ LET args == [pid |-> pid, path |-> path, offset |-> offset] IN
           IF a.err # NilErr
           THEN Return("AttachURetprobe", p, args, NilLink, a.err, <<>>)
           ELSE \E o \in doAttachUprobe(p, TRUE, pid, a.path, offset) :
                    Return("AttachURetprobe", p, args, o.link, o.err, o.calls)
        /\ UNCHANGED <<links, pinnedPath, pins, opts, goroutines>>

\* fmt's %v of a []uint64.
FmtSlice(xs) == <<"[">> \o [i \in 1..Len(xs) |-> ToString(xs[i])] \o <<"]">>

\* doAttachUprobeMulti: the outcomes, for the exported operation that calls it.
doAttachUprobeMulti(prog, isUretprobe, pid, path, offsets, cookies) ==
    {LET calls == <<Call("cgo_bpf_program__attach_uprobe_multi", n.errno)>> IN
     IF n.linkC = NilHandle
     THEN Outcome(NilLink,
                  Errorf("failed to attach u(ret)probe multi to program", "%w",
                         n.errno),
                  calls, FALSE)
     ELSE LET upType == IF isUretprobe THEN "Uretprobe" ELSE "Uprobe" IN
          Outcome(BPFLink(n.linkC, prog, upType,
                          path \o <<":", ToString(pid), ":">> \o FmtSlice(offsets),
                          NilLegacy),
                  NilErr, calls, FALSE)
     : n \in NativeLink}

AttachUprobeMulti(p, pid, path, offsets, cookies) ==
    /\ Idle
    /\ \E a \in Abs(path) :
        /\ LET args == [pid |-> pid, path |-> path, offsets |-> offsets,
                        cookies |-> cookies] IN
           IF a.err # NilErr
           THEN Return("AttachUprobeMulti", p, args, NilLink, a.err, <<>>)
           ELSE \E o \in doAttachUprobeMulti(p, FALSE, pid, a.path, offsets, cookies) :
                    Return("AttachUprobeMulti", p, args, o.link, o.err, o.calls)
        /\ UNCHANGED <<links, pinnedPath, pins, opts, goroutines>>

AttachURetprobeMulti(p, pid, path, offsets, cookies) ==
    /\ Idle
    /\ \E a \in Abs(path) :
        /\ LET args == [pid |-> pid, path |-> path, offsets |-> offsets,
                        cookies |-> cookies] IN
           IF a.err # NilErr
           THEN Return("AttachURetprobeMulti", p, args, NilLink, a.err, <<>>)
           ELSE \E o \in doAttachUprobeMulti(p, TRUE, pid, a.path, offsets, cookies) :
                    Return("AttachURetprobeMulti", p, args, o.link, o.err, o.calls)
        /\ UNCHANGED <<links, pinnedPath, pins, opts, goroutines>>

AttachGenericFD(p, targetFd, attachType, flags) ==
    /\ Idle
    /\ \E r \in NativeRet :
        /\ LET args == [targetFd |-> targetFd, attachType |-> attachType,
                        flags |-> flags]
               calls == <<Call("bpf_prog_attach", r.errno)>> IN
           IF r.retC < 0
           THEN Return("AttachGenericFD", p, args, NilLink,
                       Errorf("failed to attach", "%w", Errno(r.retC)), calls)
           ELSE Return("AttachGenericFD", p, args, NilLink, NilErr, calls)
        /\ UNCHANGED <<links, pinnedPath, pins, opts, goroutines>>

DetachGenericFD(p, targetFd, attachType) ==
    /\ Idle
    /\ \E r \in NativeRet :
        /\ LET args == [targetFd |-> targetFd, attachType |-> attachType]
               calls == <<Call("bpf_prog_detach2", r.errno)>> IN
           IF r.retC < 0
           THEN Return("DetachGenericFD", p, args, NilLink,
                       Errorf("failed to detach", "%w", Errno(r.retC)), calls)
           ELSE Return("DetachGenericFD", p, args, NilLink, NilErr, calls)
        /\ UNCHANGED <<links, pinnedPath, pins, opts, goroutines>>

AttachUSDT(p, pid, binaryPath, provider, name) ==
    /\ Idle
    /\ \E n \in NativeLink :
        /\ LET args == [pid |-> pid, binaryPath |-> binaryPath, provider |-> provider,
                        name |-> name]
               calls == <<Call("bpf_program__attach_usdt", n.errno)>> IN
           IF n.linkC = NilHandle
           THEN Return("AttachUSDT", p, args, NilLink,
                       Errorf("failed to attach USDT probe to marker", "%w", n.errno),
                       calls)
           ELSE Return("AttachUSDT", p, args,
                       BPFLink(n.linkC, p, "USDT",
                               binaryPath \o <<":", ToString(pid), ":">> \o provider
                                   \o <<":">> \o name,
                               NilLegacy),
                       NilErr, calls)
        /\ UNCHANGED <<links, pinnedPath, pins, opts, goroutines>>

----------------------------------------------------------------------------
\* Setters

SetAutoload(p, autoload) ==
    /\ Idle
    /\ \E r \in NativeRet :
        /\ LET calls == <<Call("bpf_program__set_autoload", r.errno)>> IN
           IF r.retC < 0
           THEN Return("SetAutoload", p, [autoload |-> autoload], NilLink,
                       Errorf("failed to set bpf program autoload", "%w",
                              Errno(r.retC)),
                       calls)
           ELSE Return("SetAutoload", p, [autoload |-> autoload], NilLink, NilErr,
                       calls)
        /\ UNCHANGED <<links, pinnedPath, pins, opts, goroutines>>

SetAutoattach(p, autoload) ==
    /\ Idle
    /\ Return("SetAutoattach", p, [autoload |-> autoload], NilLink, NilErr,
              <<Call("bpf_program__set_autoattach", 0)>>)
    /\ UNCHANGED <<links, pinnedPath, pins, opts, goroutines>>

SetAttachTarget(p, attachProgFD, attachFuncName) ==
    /\ Idle
    /\ \E r \in NativeRet :
        /\ LET args == [attachProgFD |-> attachProgFD,
                        attachFuncName |-> attachFuncName]
               calls == <<Call("bpf_program__set_attach_target", r.errno)>> IN
           IF r.retC < 0
           THEN Return("SetAttachTarget", p, args, NilLink,
                       Errorf("failed to set attach target for program", "%w",
                              Errno(r.retC)),
                       calls)
           ELSE Return("SetAttachTarget", p, args, NilLink, NilErr, calls)
        /\ UNCHANGED <<links, pinnedPath, pins, opts, goroutines>>

\* The outcomes of SetType: the error it returns and the call it made.
SetTypeOutcomes(progType) ==
    {IF r.retC < 0
     THEN Outcome(NilLink, Errorf("failed to set prog_type", "%w", Errno(r.retC)),
                  <<Call("bpf_program__set_type", r.errno)>>, FALSE)
     ELSE Outcome(NilLink, NilErr, <<Call("bpf_program__set_type", 0)>>, FALSE)
     : r \in NativeRet}

SetType(p, progType) ==
    /\ Idle
    /\ \E o \in SetTypeOutcomes(progType) :
        Return("SetType", p, [progType |-> progType], NilLink, o.err, o.calls)
    /\ UNCHANGED <<links, pinnedPath, pins, opts, goroutines>>

\* Deprecated: calls SetType and drops its error.
SetProgramType(p, progType) ==
    /\ Idle
    /\ \E o \in SetTypeOutcomes(progType) :
        Return("SetProgramType", p, [progType |-> progType], NilLink, NilErr, o.calls)
    /\ UNCHANGED <<links, pinnedPath, pins, opts, goroutines>>

\* The outcomes of SetExpectedAttachType.
SetExpectedAttachTypeOutcomes(attachType) ==
    {IF r.retC < 0
     THEN Outcome(NilLink, Errorf("failed to set attach_type", "%w", Errno(r.retC)),
                  <<Call("bpf_program__set_expected_attach_type", r.errno)>>, FALSE)
     ELSE Outcome(NilLink, NilErr,
                  <<Call("bpf_program__set_expected_attach_type", 0)>>, FALSE)
     : r \in NativeRet}

SetExpectedAttachType(p, attachType) ==
    /\ Idle
    /\ \E o \in SetExpectedAttachTypeOutcomes(attachType) :
        Return("SetExpectedAttachType", p, [attachType |-> attachType], NilLink,
               o.err, o.calls)
    /\ UNCHANGED <<links, pinnedPath, pins, opts, goroutines>>

\* Deprecated: calls SetExpectedAttachType and drops its error.
SetAttachType(p, attachType) ==
    /\ Idle
    /\ \E o \in SetExpectedAttachTypeOutcomes(attachType) :
        Return("SetAttachType", p, [attachType |-> attachType], NilLink, NilErr,
               o.calls)
    /\ UNCHANGED <<links, pinnedPath, pins, opts, goroutines>>

----------------------------------------------------------------------------
\* Pin and Unpin

\* The name the kernel resolves a path to.
Resolve(path) == IF IsAbs(path) THEN path ELSE Cwd \o <<"/">> \o path

\* Every path of the bpffs at which some program is pinned.
Pinned == UNION {pins[q] : q \in Progs}

\* bpf_program__pin(prog, path): -errno, or 0 when nothing exists at the path,
\* which then holds a pin of the program.
bpf_program__pin(path) ==
    {[retC |-> -e, errno |-> e] : e \in Errnos}
        \cup (IF Resolve(path) \in Pinned THEN {} ELSE {[retC |-> 0, errno |-> 0]})

\* bpf_program__unpin(prog, path): -errno, or 0 when a pin exists at the path,
\* which is then removed.
bpf_program__unpin(path) ==
    {[retC |-> -e, errno |-> e] : e \in Errnos}
        \cup (IF Resolve(path) \in Pinned THEN {[retC |-> 0, errno |-> 0]} ELSE {})

\* PinPath()
PinPath(p) == pinnedPath[p]

\* Mutant: the path is recorded as the caller gave it.
PinStoresGivenPath(p, path) ==
    /\ Idle
    /\ \E a \in Abs(path) :
        IF a.err # NilErr
        THEN /\ Return("Pin", p, [path |-> path], NilLink, GoErr("invalid path"), <<>>)
             /\ UNCHANGED <<pinnedPath, pins>>
        ELSE \E r \in bpf_program__pin(a.path) :
             LET calls == <<Call("bpf_program__pin", r.errno)>> IN
             IF r.retC < 0
             THEN /\ Return("Pin", p, [path |-> path], NilLink,
                            Errorf("failed to pin program", "%w", Errno(r.retC)),
                            calls)
                  /\ UNCHANGED <<pinnedPath, pins>>
             ELSE /\ pins' = [pins EXCEPT ![p] = @ \cup {Resolve(a.path)}]
                  /\ pinnedPath' = [pinnedPath EXCEPT ![p] = path]
                  /\ Return("Pin", p, [path |-> path], NilLink, NilErr, calls)
    /\ UNCHANGED <<links, opts, goroutines>>

Pin(p, path) ==
    /\ Idle
    /\ \E a \in Abs(path) :
        IF a.err # NilErr
        THEN /\ Return("Pin", p, [path |-> path], NilLink, GoErr("invalid path"), <<>>)
             /\ UNCHANGED <<pinnedPath, pins>>
        ELSE \E r \in bpf_program__pin(a.path) :
             LET calls == <<Call("bpf_program__pin", r.errno)>> IN
             IF r.retC < 0
             THEN /\ Return("Pin", p, [path |-> path], NilLink,
                            Errorf("failed to pin program", "%w", Errno(r.retC)),
                            calls)
                  /\ UNCHANGED <<pinnedPath, pins>>
             ELSE /\ pins' = [pins EXCEPT ![p] = @ \cup {Resolve(a.path)}]
                  /\ pinnedPath' = [pinnedPath EXCEPT ![p] = a.path]
                  /\ Return("Pin", p, [path |-> path], NilLink, NilErr, calls)
    /\ UNCHANGED <<links, opts, goroutines>>

Unpin(p, path) ==
    /\ Idle
    /\ \E r \in bpf_program__unpin(path) :
        LET calls == <<Call("bpf_program__unpin", r.errno)>> IN
        IF r.retC < 0
        THEN /\ Return("Unpin", p, [path |-> path], NilLink,
                       Errorf("failed to unpin program", "%w", Errno(r.retC)), calls)
             /\ UNCHANGED <<pinnedPath, pins>>
        ELSE /\ pins' = [q \in Progs |-> pins[q] \ {Resolve(path)}]
             /\ pinnedPath' = [pinnedPath EXCEPT ![p] = <<>>]
             /\ Return("Unpin", p, [path |-> path], NilLink, NilErr, calls)
    /\ UNCHANGED <<links, opts, goroutines>>

----------------------------------------------------------------------------
\* BPF_PROG_TEST_RUN

\* A *RunOpts: nil, or the address of a structure.
NilRunOpts == [nil |-> TRUE, val |-> ExampleRunOpts]

Ref(runOpts) == [nil |-> FALSE, val |-> runOpts]

\* A nil *C.struct_bpf_test_run_opts.
NilOptsC ==
    [null |-> TRUE, data_in |-> "NULL", data_out |-> "NULL", data_size_in |-> 0,
     data_size_out |-> 0, ctx_in |-> "NULL", ctx_out |-> "NULL", ctx_size_in |-> 0,
     ctx_size_out |-> 0, retval |-> 0, repeat |-> 0, duration |-> 0, flags |-> 0,
     cpu |-> 0, batch_size |-> 0]

\* unsafe.Pointer(&s[0]) of a non-nil slice: the address of its first byte.
\* Indexing a slice of length 0 panics.
IndexPanics(s) == ~s.nil /\ s.len = 0

Ptr(s) == IF s.nil THEN "NULL" ELSE "buf"

\* runOptsToC: the outcomes are a panic, an error, or the native structure
\* (nil for a nil runOpts).
runOptsToC(ptr) ==
    LET runOpts == ptr.val IN
    IF ptr.nil
    THEN {[optsC |-> NilOptsC, err |-> NilErr, panicked |-> FALSE, calls |-> <<>>]}
    ELSE IF \/ IndexPanics(runOpts.DataIn) \/ IndexPanics(runOpts.DataOut)
            \/ IndexPanics(runOpts.CtxIn) \/ IndexPanics(runOpts.CtxOut)
    THEN {[optsC |-> NilOptsC, err |-> NilErr, panicked |-> TRUE, calls |-> <<>>]}
    ELSE {IF o.optsC = "NULL"
          THEN [optsC |-> NilOptsC,
                err |-> Errorf("failed to create bpf_test_run_opts", "%w", o.errno),
                panicked |-> FALSE,
                calls |-> <<Call("cgo_bpf_test_run_opts_new", o.errno)>>]
          ELSE [optsC |->
                    [null |-> FALSE,
                     data_in |-> Ptr(runOpts.DataIn),
                     data_out |-> Ptr(runOpts.DataOut),
                     data_size_in |-> IF runOpts.DataIn.nil THEN 0
                                      ELSE runOpts.DataSizeIn,
                     data_size_out |-> IF runOpts.DataOut.nil THEN 0
                                       ELSE runOpts.DataSizeOut,
                     ctx_in |-> Ptr(runOpts.CtxIn),
                     ctx_out |-> Ptr(runOpts.CtxOut),
                     ctx_size_in |-> IF runOpts.CtxIn.nil THEN 0
                                     ELSE runOpts.CtxSizeIn,
                     ctx_size_out |-> IF runOpts.CtxOut.nil THEN 0
                                      ELSE runOpts.CtxSizeOut,
                     retval |-> 0, repeat |-> runOpts.Repeat, duration |-> 0,
                     flags |-> runOpts.Flags, cpu |-> runOpts.CPU,
                     batch_size |-> runOpts.BatchSize],
                err |-> NilErr, panicked |-> FALSE,
                calls |-> <<Call("cgo_bpf_test_run_opts_new", 0)>>]
          : o \in NativeOpts}

\* C.GoBytes(ptr, C.int(size)): a fresh slice of size bytes.
GoBytes(ptr, size) == Make(size, size)

\* Mutant: the output buffer is copied with the size of the input.
runOptsFromCInputSize(runOpts, optsC) ==
    IF optsC.null
    THEN runOpts
    ELSE [runOpts EXCEPT
            !.DataIn = IF optsC.data_in # "NULL"
                       THEN GoBytes(optsC.data_in, optsC.data_size_in) ELSE @,
            !.DataOut = IF optsC.data_out # "NULL"
                        THEN GoBytes(optsC.data_out, optsC.data_size_in) ELSE @,
            !.CtxIn = IF optsC.ctx_in # "NULL"
                      THEN GoBytes(optsC.ctx_in, optsC.ctx_size_in) ELSE @,
            !.CtxOut = IF optsC.ctx_out # "NULL"
                       THEN GoBytes(optsC.ctx_out, optsC.ctx_size_out) ELSE @,
            !.RetVal = optsC.retval,
            !.Repeat = optsC.repeat,
            !.Duration = optsC.duration * 1,
            !.Flags = optsC.flags,
            !.CPU = optsC.cpu,
            !.BatchSize = optsC.batch_size]

\* runOptsFromC: the caller's RunOpts after the native structure is copied back.
runOptsFromC(runOpts, optsC) ==
    IF optsC.null
    THEN runOpts
    ELSE [runOpts EXCEPT
            !.DataIn = IF optsC.data_in # "NULL"
                       THEN GoBytes(optsC.data_in, optsC.data_size_in) ELSE @,
            !.DataOut = IF optsC.data_out # "NULL"
                        THEN GoBytes(optsC.data_out, optsC.data_size_out) ELSE @,
            !.CtxIn = IF optsC.ctx_in # "NULL"
                      THEN GoBytes(optsC.ctx_in, optsC.ctx_size_in) ELSE @,
            !.CtxOut = IF optsC.ctx_out # "NULL"
                       THEN GoBytes(optsC.ctx_out, optsC.ctx_size_out) ELSE @,
            !.RetVal = optsC.retval,
            !.Repeat = optsC.repeat,
            !.Duration = optsC.duration * 1,
            !.Flags = optsC.flags,
            !.CPU = optsC.cpu,
            !.BatchSize = optsC.batch_size]

\* bpf_prog_test_run_opts(fd, optsC): -errno, or 0 with the structure filled in:
\* the return value, the duration, and the sizes of the output actually written,
\* none beyond the size of its buffer.
bpf_prog_test_run_opts(optsC) ==
    {[retC |-> -e, errno |-> e, optsC |-> optsC] : e \in Errnos}
        \cup (IF optsC.null
              THEN {[retC |-> 0, errno |-> 0, optsC |-> optsC]}
              ELSE {[retC |-> 0, errno |-> 0,
                     optsC |-> [optsC EXCEPT !.retval = rv, !.duration = d,
                                             !.data_size_out = dso,
                                             !.ctx_size_out = cso]]
                    : rv \in RetVals, d \in Durations,
                      dso \in {0, optsC.data_size_out},
                      cso \in {0, optsC.ctx_size_out}})

\* Run(o), o being &opts (the caller's structure) or nil.
Run(p, o) ==
    /\ Idle
    /\ \E c \in runOptsToC(o) :
        IF c.panicked
        THEN /\ ret' = [Result("Run", p, [opts |-> o], NilLink, NilErr, c.calls, TRUE)
                            EXCEPT !.native = c.optsC]
             /\ UNCHANGED opts
        ELSE IF c.err # NilErr
        THEN /\ ret' = [Result("Run", p, [opts |-> o], NilLink, c.err, c.calls, FALSE)
                            EXCEPT !.native = c.optsC]
             /\ UNCHANGED opts
        ELSE \E r \in bpf_prog_test_run_opts(c.optsC) :
             LET calls == c.calls \o <<Call("bpf_prog_test_run_opts", r.errno)>> IN
             IF r.retC < 0
             THEN /\ ret' = [Result("Run", p, [opts |-> o], NilLink,
                                    Errorf("failed to run program", "%w",
                                           Errno(r.retC)),
                                    calls, FALSE)
                                 EXCEPT !.native = r.optsC]
                  /\ UNCHANGED opts
             ELSE /\ opts' = IF o.nil THEN opts ELSE runOptsFromC(o.val, r.optsC)
                  /\ ret' = [Result("Run", p, [opts |-> o], NilLink, NilErr, calls,
                                    FALSE)
                                 EXCEPT !.native = r.optsC]
    /\ UNCHANGED <<links, pinnedPath, pins, goroutines>>

----------------------------------------------------------------------------
\* Specification

Init ==
    /\ links = <<>>
    /\ pinnedPath = [p \in Progs |-> <<>>]
    /\ pins = [p \in Progs |-> {}]
    /\ opts = ExampleRunOpts
    /\ ret = NoResult
    /\ goroutines = [g \in Goroutines |-> NotCalled]

\* The caller calls one operation of the attach family.
CallAttach ==
    \/ \E p \in Progs : AttachGeneric(p)
    \/ \E p \in Progs, d \in CgroupPaths : AttachCgroup(p, d)
    \/ \E p \in Progs, d \in CgroupPaths, t \in AttachTypes : AttachCgroupLegacy(p, d, t)
    \/ \E p \in Progs, d \in CgroupPaths, t \in AttachTypes : DetachCgroupLegacy(p, d, t)
    \/ \E p \in Progs, d \in Devices : AttachXDP(p, d)
    \/ \E p \in Progs, d \in Devices, f \in XDPFlagsInputs : AttachXDPLegacy(p, d, f)
    \/ \E p \in Progs, d \in Devices, f \in XDPFlagsInputs : DetachXDPLegacy(p, d, f)
    \/ \E p \in Progs, c \in TpCategories, n \in TpNames : AttachTracepoint(p, c, n)
    \/ \E p \in Progs, n \in TpNames : AttachRawTracepoint(p, n)
    \/ \E p \in Progs : AttachLSM(p)
    \/ \E p \in Progs, fd \in PerfFds : AttachPerfEvent(p, fd)
    \/ \E p \in Progs, s \in Symbols : AttachKprobe(p, s)
    \/ \E p \in Progs, s \in Symbols : AttachKretprobe(p, s)
    \/ \E p \in Progs, o \in Offsets : AttachKprobeOffset(p, o)
    \/ \E p \in Progs, o \in Offsets : AttachKretprobeOnOffset(p, o)
    \/ \E p \in Progs, d \in NetnsPaths : AttachNetns(p, d)
    \/ \E p \in Progs, o \in IterOptsInputs : AttachIter(p, o)
    \/ \E p \in Progs, pid \in Pids, b \in BinaryPaths, o \in Offsets :
           AttachUprobe(p, pid, b, o)
    \/ \E p \in Progs, pid \in Pids, b \in BinaryPaths, o \in Offsets :
           AttachURetprobe(p, pid, b, o)
    \/ \E p \in Progs, pid \in Pids, b \in BinaryPaths, o \in OffsetLists,
             c \in CookieLists :
           AttachUprobeMulti(p, pid, b, o, c)
    \/ \E p \in Progs, pid \in Pids, b \in BinaryPaths, o \in OffsetLists,
             c \in CookieLists :
           AttachURetprobeMulti(p, pid, b, o, c)
    \/ \E p \in Progs, fd \in TargetFds, t \in AttachTypes, f \in AttachFlags :
           AttachGenericFD(p, fd, t, f)
    \/ \E p \in Progs, fd \in TargetFds, t \in AttachTypes : DetachGenericFD(p, fd, t)
    \/ \E p \in Progs, pid \in Pids, b \in BinaryPaths, v \in Providers, m \in Markers :
           AttachUSDT(p, pid, b, v, m)
    \/ \E p \in Progs, b \in BOOLEAN : SetAutoload(p, b)
    \/ \E p \in Progs, b \in BOOLEAN : SetAutoattach(p, b)
    \/ \E p \in Progs, fd \in {0}, f \in FuncNames : SetAttachTarget(p, fd, f)
    \/ \E p \in Progs, t \in ProgTypes : SetType(p, t)
    \/ \E p \in Progs, t \in ProgTypes : SetProgramType(p, t)
    \/ \E p \in Progs, t \in AttachTypes : SetExpectedAttachType(p, t)
    \/ \E p \in Progs, t \in AttachTypes : SetAttachType(p, t)

\* The caller takes the result of the call that returned.
Consume ==
    /\ ~Idle
    /\ ret' = NoResult
    /\ UNCHANGED <<links, pinnedPath, pins, opts, goroutines>>

\* The caller calls Pin or Unpin.
CallPin ==
    \/ \E p \in Progs, path \in PinPaths : Pin(p, path)
    \/ \E p \in Progs, path \in PinPaths : Unpin(p, path)

\* The caller calls Run with its RunOpts, or with nil.
CallRun ==
    \E p \in Progs, o \in {Ref(opts), NilRunOpts} : Run(p, o)

\* Every operation of a program: the attach family with all its inputs, Pin
\* and Unpin of one program at one path, and Run; the caller's RunOpts start
\* as the documented example.
Next ==
    \/ CallAttach
    \/ \E path \in DefaultPinPaths : Pin(DefaultProg, path)
    \/ \E path \in DefaultPinPaths : Unpin(DefaultProg, path)
    \/ CallRun
    \/ Consume

Spec == Init /\ [][Next]_vars

\* Pin and Unpin of every program at every path.
NextPin ==
    \/ CallPin
    \/ Consume

SpecPin == Init /\ [][NextPin]_vars

\* Pin and Unpin of one program at every path.
NextPinOne ==
    \/ \E path \in PinPaths : Pin(DefaultProg, path)
    \/ \E path \in PinPaths : Unpin(DefaultProg, path)
    \/ Consume

SpecPinOne == Init /\ [][NextPinOne]_vars

\* The caller owns any of the RunOpts inputs.
InitRun ==
    /\ links = <<>>
    /\ pinnedPath = [p \in Progs |-> <<>>]
    /\ pins = [p \in Progs |-> {}]
    /\ opts \in RunOptsInputs
    /\ ret = NoResult
    /\ goroutines = [g \in Goroutines |-> NotCalled]

NextRun ==
    \/ CallRun
    \/ Consume

SpecRun == InitRun /\ [][NextRun]_vars

----------------------------------------------------------------------------
\* Attach operations called from two goroutines
\*
\* Module.links is not guarded by any lock: the statement
\* p.module.links = append(p.module.links, bpfLink) reads the slice, and then
\* writes it, and another goroutine may run between the two.

\* Outcomes of a libbpf call returning a link, made by goroutine g.
NativeLinkOf(g) ==
    {[linkC |-> HandleOf[g], errno |-> 0]}
        \cup {[linkC |-> NilHandle, errno |-> e] : e \in Errnos}

\* Goroutine g is about to append bpfLink on behalf of op.
Built(g, op, bpfLink) ==
    goroutines' = [goroutines EXCEPT ![g] =
                      [@ EXCEPT !.pc = "append", !.op = op, !.bpfLink = bpfLink]]

\* Goroutine g returns nil and err from op.
Fails(g, op, err) ==
    goroutines' = [goroutines EXCEPT ![g] =
                      [@ EXCEPT !.pc = "returned", !.op = op, !.err = err]]

\* AttachTracepoint in goroutine g, up to the bpfLink it builds.
GoAttachTracepoint(g, p, category, name) ==
    /\ goroutines[g].pc = "start"
    /\ \E n \in NativeLinkOf(g) :
        IF n.linkC = NilHandle
        THEN Fails(g, "AttachTracepoint",
                   Errorf("failed to attach tracepoint", "%w", n.errno))
        ELSE Built(g, "AttachTracepoint",
                   BPFLink(n.linkC, p, "Tracepoint", name, NilLegacy))
    /\ UNCHANGED <<links, pinnedPath, pins, opts, ret>>

\* attachKprobeCommon in goroutine g, up to the bpfLink it builds.
GoAttachKprobeCommon(g, op, p, a) ==
    /\ goroutines[g].pc = "start"
    /\ \E o \in NativeOpts :
        IF o.optsC = "NULL"
        THEN Fails(g, op, Errorf("failed to create kprobe_opts of", "%v", o.errno))
        ELSE \E n \in NativeLinkOf(g) :
             IF n.linkC = NilHandle
             THEN Fails(g, op, Errorf("failed to attach to", "%v", n.errno))
             ELSE LET linkType == IF a.isRet THEN "Kretprobe" ELSE "Kprobe"
                      eventName == IF a.symName = <<>>
                                   THEN <<ToString(a.symAddr)>>
                                   ELSE a.symName IN
                  Built(g, op, BPFLink(n.linkC, p, linkType, eventName, NilLegacy))
    /\ UNCHANGED <<links, pinnedPath, pins, opts, ret>>

GoAttachKprobe(g, p, symbol) ==
    GoAttachKprobeCommon(g, "AttachKprobe", p, attachTo(symbol, 0, FALSE))

GoAttachKretprobe(g, p, symbol) ==
    GoAttachKprobeCommon(g, "AttachKretprobe", p, attachTo(symbol, 0, TRUE))

\* append(p.module.links, bpfLink): goroutine g reads the module's slice and
\* computes the slice that holds one more element.
LoadLinks(g) ==
    /\ goroutines[g].pc = "append"
    /\ goroutines' = [goroutines EXCEPT ![g] =
                         [@ EXCEPT !.pc = "assign",
                                   !.appended = Append(links, goroutines[g].bpfLink)]]
    /\ UNCHANGED <<links, pinnedPath, pins, opts, ret>>

\* p.module.links = ...; return bpfLink, nil: goroutine g writes the slice it
\* computed and returns.
StoreLinks(g) ==
    /\ goroutines[g].pc = "assign"
    /\ links' = goroutines[g].appended
    /\ goroutines' = [goroutines EXCEPT ![g] =
                         [@ EXCEPT !.pc = "returned",
                                   !.link = goroutines[g].bpfLink]]
    /\ UNCHANGED <<pinnedPath, pins, opts, ret>>

\* Two goroutines each call one attach operation on a program of the module.
NextGo ==
    \/ \E g \in Goroutines, p \in Progs, c \in TpCategories, n \in TpNames :
           GoAttachTracepoint(g, p, c, n)
    \/ \E g \in Goroutines, p \in Progs, sym \in Symbols : GoAttachKprobe(g, p, sym)
    \/ \E g \in Goroutines, p \in Progs, sym \in Symbols : GoAttachKretprobe(g, p, sym)
    \/ \E g \in Goroutines : LoadLinks(g)
    \/ \E g \in Goroutines : StoreLinks(g)

SpecGo == Init /\ [][NextGo]_vars

----------------------------------------------------------------------------
\* Properties

\* The operations that return a *BPFLink.
LinkOps ==
    {"AttachGeneric", "AttachCgroup", "AttachCgroupLegacy", "AttachXDP",
     "AttachTracepoint", "AttachRawTracepoint", "AttachLSM", "AttachPerfEvent",
     "AttachKprobe", "AttachKretprobe", "AttachKprobeOffset",
     "AttachKretprobeOnOffset", "AttachNetns", "AttachIter", "AttachUprobe",
     "AttachURetprobe", "AttachUprobeMulti", "AttachURetprobeMulti", "AttachUSDT"}

\* The last call returned (it did not panic), without or with an error.
Returned == ~Idle /\ ~ret.panicked

Succeeded == Returned /\ ret.err = NilErr

Failed == Returned /\ ret.err # NilErr

\* The elements of the module's link list.
Tracked == {links[i] : i \in 1..Len(links)}

\* The native attach, detach, pin and run calls (not the calls that open a
\* directory, allocate an options structure or set a property).
AttachDetachPinRunCalls ==
    {"bpf_program__attach", "bpf_program__attach_cgroup",
     "cgo_bpf_prog_attach_cgroup_legacy", "cgo_bpf_prog_detach_cgroup_legacy",
     "bpf_program__attach_xdp", "bpf_xdp_attach", "bpf_xdp_detach",
     "bpf_program__attach_tracepoint", "bpf_program__attach_raw_tracepoint",
     "bpf_program__attach_lsm", "bpf_program__attach_perf_event",
     "bpf_program__attach_kprobe_opts", "bpf_program__attach_netns",
     "bpf_program__attach_iter", "bpf_program__attach_uprobe",
     "cgo_bpf_program__attach_uprobe_multi", "bpf_prog_attach", "bpf_prog_detach2",
     "bpf_program__attach_usdt", "bpf_program__pin", "bpf_program__unpin",
     "bpf_prog_test_run_opts"}

IsNativeCall(c) == c.fn \in AttachDetachPinRunCalls

\* The native attach, detach, pin and run calls of the last operation.
NativeCalls == SelectSeq(ret.calls, IsNativeCall)

\* C1 (as claimed): every link returned by a successful attach operation is an
\* element of the module's link list.
C1_ReturnedLinkIsTracked ==
    (ret.op \in LinkOps /\ Succeeded) => ret.link \in Tracked

\* C2 (as claimed): an operation that fails because the last call it made
\* reported an errno returns an error that wraps that errno.
C2_FailureWrapsErrno ==
    (Failed /\ ret.calls # <<>> /\ ret.calls[Len(ret.calls)].errno # 0)
        => ret.err.wrapped = ret.calls[Len(ret.calls)].errno

\* C3 (as claimed): every operation makes at most one native call, and returns
\* an error once a native call reported failure.
C3_AtMostOneNativeCall ==
    ~Idle =>
        /\ Len(NativeCalls) <= 1
        /\ \A i \in 1..Len(NativeCalls) : NativeCalls[i].errno # 0 => Failed

\* C3 (amended): every operation other than AttachCgroupLegacy makes at most
\* one native call and returns an error when that call reported failure;
\* AttachCgroupLegacy makes at most two native attach calls, each at most once:
\* the link-based attach and then, only when no link-based attach succeeded,
\* the legacy attach, and it returns an error when the last native call it
\* made reported failure.
C3_OneCallExceptCgroupLegacy ==
    ~Idle =>
        IF ret.op # "AttachCgroupLegacy"
        THEN /\ Len(NativeCalls) <= 1
             /\ \A i \in 1..Len(NativeCalls) : NativeCalls[i].errno # 0 => Failed
        ELSE /\ NativeCalls \in
                    {<<>>,
                     <<Call("bpf_program__attach_cgroup", 0)>>,
                     <<Call("cgo_bpf_prog_attach_cgroup_legacy", 0)>>}
                    \cup {<<Call("bpf_program__attach_cgroup", e)>> : e \in Errnos}
                    \cup {<<Call("cgo_bpf_prog_attach_cgroup_legacy", e)>>
                          : e \in Errnos}
                    \cup {<<Call("bpf_program__attach_cgroup", e),
                            Call("cgo_bpf_prog_attach_cgroup_legacy", f)>>
                          : e \in Errnos, f \in Errnos \cup {0}}
             /\ (NativeCalls # <<>> /\ NativeCalls[Len(NativeCalls)].errno # 0)
                    => Failed

\* C3 (witness): AttachCgroupLegacy returned a link after a failed link-based
\* attach and a legacy attach.
C3_Witness ==
    /\ ret.op = "AttachCgroupLegacy"
    /\ Succeeded
    /\ Len(NativeCalls) = 2

\* C4: a link returned by a successful attach operation on program p references
\* p; unless its type is CgroupLegacy it carries a non-nil native handle and no
\* legacy metadata; a CgroupLegacy link has a nil handle and legacy metadata
\* holding exactly the attach type and cgroup directory given to
\* AttachCgroupLegacy.
C4_LinkShape ==
    (ret.op \in LinkOps /\ Succeeded) =>
        /\ ret.link # NilLink
        /\ ret.link.prog = ret.prog
        /\ IF ret.link.linkType = "CgroupLegacy"
           THEN /\ ret.op = "AttachCgroupLegacy"
                /\ ret.link.link = NilHandle
                /\ ret.link.legacy # NilLegacy
                /\ ret.link.legacy.attachType = ret.args.attachType
                /\ ret.link.legacy.cgroupDir = ret.args.cgroupV2DirPath
           ELSE /\ ret.link.link # NilHandle
                /\ ret.link.legacy = NilLegacy

\* C4 (witness): AttachCgroupLegacy returned a CgroupLegacy link for the egress
\* attach type.
C4_Witness ==
    /\ ret.op = "AttachCgroupLegacy"
    /\ Succeeded
    /\ ret.link.linkType = "CgroupLegacy"
    /\ ret.args.attachType = "BPFAttachTypeCgroupInetEgress"
    /\ ret.prog = "p2"

\* The link type each attach operation gives its link.
LinkTypeOf ==
    [op \in LinkOps \ {"AttachCgroupLegacy"} |->
        CASE op = "AttachGeneric" -> "Tracing"
          [] op = "AttachCgroup" -> "Cgroup"
          [] op = "AttachXDP" -> "XDP"
          [] op = "AttachTracepoint" -> "Tracepoint"
          [] op = "AttachRawTracepoint" -> "RawTracepoint"
          [] op = "AttachLSM" -> "LSM"
          [] op = "AttachPerfEvent" -> "PerfEvent"
          [] op = "AttachNetns" -> "Netns"
          [] op = "AttachIter" -> "Iter"
          [] op = "AttachUSDT" -> "USDT"
          [] op \in {"AttachKprobe", "AttachKprobeOffset"} -> "Kprobe"
          [] op \in {"AttachKretprobe", "AttachKretprobeOnOffset"} -> "Kretprobe"
          [] op \in {"AttachUprobe", "AttachUprobeMulti"} -> "Uprobe"
          [] op \in {"AttachURetprobe", "AttachURetprobeMulti"} -> "Uretprobe"]

\* C5: the link type of a returned link is the one of the attach operation that
\* returned it, whatever its other arguments and whatever the native call
\* reported.
C5_LinkTypeByOperation ==
    (ret.op \in DOMAIN LinkTypeOf /\ Succeeded) =>
        ret.link.linkType = LinkTypeOf[ret.op]

\* C5 (witness): AttachKretprobeOnOffset returned a Kretprobe link.
C5_Witness ==
    /\ ret.op = "AttachKretprobeOnOffset"
    /\ Succeeded
    /\ ret.link.linkType = "Kretprobe"

\* The calls of AttachCgroupLegacy's first attempt (AttachCgroup): opening the
\* directory and, when it opened, the link-based attach; the calls after it.
FirstLen == IF ret.calls[1].errno # 0 THEN 1 ELSE 2

FirstFailed == ret.calls[FirstLen].errno # 0

Rest == SubSeq(ret.calls, FirstLen + 1, Len(ret.calls))

\* C6: AttachCgroupLegacy first attempts the link-based AttachCgroup; when that
\* succeeds it returns its link, tracked by the module, and makes no further
\* call; only when it fails does it open the directory again and make the
\* legacy attach; it then succeeds exactly when the directory opened and the
\* legacy attach reported no error, returning a CgroupLegacy link and no error.
C6_CgroupLegacyFallback ==
    (ret.op = "AttachCgroupLegacy" /\ Returned) =>
        /\ ret.calls[1].fn = "syscall.Open"
        /\ FirstLen = 2 => ret.calls[2].fn = "bpf_program__attach_cgroup"
        /\ IF ~FirstFailed
           THEN /\ Rest = <<>>
                /\ Succeeded
                /\ ret.link.linkType = "Cgroup"
                /\ ret.link \in Tracked
           ELSE /\ Rest # <<>>
                /\ Rest[1].fn = "syscall.Open"
                /\ Len(Rest) = 2 <=> Rest[1].errno = 0
                /\ Len(Rest) = 2 => Rest[2].fn = "cgo_bpf_prog_attach_cgroup_legacy"
                /\ Succeeded <=> (Len(Rest) = 2 /\ Rest[2].errno = 0)
                /\ Succeeded => ret.link.linkType = "CgroupLegacy"
                /\ Failed => ret.link = NilLink /\ ret.err.wrapped = Rest[Len(Rest)].errno

\* C6 (witness): the link-based attach failed with EPERM and the legacy attach
\* that followed succeeded.
C6_Witness ==
    /\ ret.op = "AttachCgroupLegacy"
    /\ Succeeded
    /\ FirstLen = 2
    /\ ret.calls[2].errno = 1
    /\ ret.link.linkType = "CgroupLegacy"

\* C7: Run, given the RunOpts of its documented example (DataIn and DataOut
\* non-nil, of length 0 and capacity 14, both sizes 14, Repeat 1), makes the
\* native test run and returns normally, and a successful run leaves the
\* program's return value in RetVal.
C7_RunAcceptsExample ==
    (ret.op = "Run" /\ ~ret.args.opts.nil /\ ret.args.opts.val = ExampleRunOpts) =>
        /\ ~ret.panicked
        /\ \/ \E i \in 1..Len(ret.calls) : ret.calls[i].fn = "bpf_prog_test_run_opts"
           \/ Failed
        /\ Succeeded => opts.RetVal = ret.native.retval

\* The value Run leaves in a buffer of the caller's RunOpts: a copy of as many
\* bytes as the native library reports when the native pointer is set, else
\* the buffer the caller had.
CopiedBack(before, after, ptr, size) ==
    IF ptr # "NULL" THEN ~after.nil /\ after.len = size ELSE after = before

\* C8: when the native test run succeeds, the caller's RunOpts hold the RetVal,
\* Repeat, Duration, Flags, CPU and BatchSize the native library reports, and
\* each buffer whose native pointer is set is a copy of the reported size; when
\* creating the options or the test run fails, Run returns an error and the
\* caller's RunOpts are as they were.
C8_RunCopiesBack ==
    (ret.op = "Run" /\ ~ret.panicked /\ ~ret.args.opts.nil) =>
        LET before == ret.args.opts.val
            n == ret.native
        IN  IF \E i \in 1..Len(ret.calls) : ret.calls[i].errno # 0
            THEN Failed /\ opts = before
            ELSE /\ Succeeded
                 /\ opts.RetVal = n.retval
                 /\ opts.Repeat = n.repeat
                 /\ opts.Duration = n.duration
                 /\ opts.Flags = n.flags
                 /\ opts.CPU = n.cpu
                 /\ opts.BatchSize = n.batch_size
                 /\ CopiedBack(before.DataIn, opts.DataIn, n.data_in, n.data_size_in)
                 /\ CopiedBack(before.DataOut, opts.DataOut, n.data_out, n.data_size_out)
                 /\ CopiedBack(before.CtxIn, opts.CtxIn, n.ctx_in, n.ctx_size_in)
                 /\ CopiedBack(before.CtxOut, opts.CtxOut, n.ctx_out, n.ctx_size_out)
                 /\ opts.DataSizeIn = before.DataSizeIn
                 /\ opts.DataSizeOut = before.DataSizeOut
                 /\ opts.CtxSizeIn = before.CtxSizeIn
                 /\ opts.CtxSizeOut = before.CtxSizeOut

\* C8 (witness): a test run succeeded with return value 1 and wrote no output:
\* the caller's full DataOut became empty while DataIn kept its size, and the
\* nil CtxOut stayed nil.
C8_Witness ==
    /\ ret.op = "Run"
    /\ Succeeded
    /\ ~ret.args.opts.nil
    /\ ret.args.opts.val.DataOut.len = ExampleSize
    /\ opts.DataOut = Make(0, 0)
    /\ opts.DataIn = Make(ExampleSize, ExampleSize)
    /\ opts.CtxOut = NilSlice
    /\ opts.RetVal = 1

\* C9: a Pin that returns no error sets PinPath() to the absolute form of its
\* path, an Unpin that returns no error sets it to the empty string, and a Pin
\* or Unpin that returns an error leaves it as it was.
C9_PinPath ==
    [][\A p \in Progs, path \in PinPaths :
          (ret'.op \in {"Pin", "Unpin"} /\ ret'.prog = p /\ ret'.args.path = path) =>
              IF ret'.err # NilErr
              THEN PinPath(p)' = PinPath(p)
              ELSE IF ret'.op = "Pin"
              THEN /\ IsAbs(PinPath(p)')
                   /\ PinPath(p)' = IF IsAbs(path) THEN path ELSE Cwd \o <<"/">> \o path
              ELSE PinPath(p)' = <<>>]_vars

\* C9 (witness): a program was pinned by a relative path and then unpinned;
\* a second program is still pinned by a relative path.
C9_Witness ==
    /\ ret.op = "Unpin"
    /\ Succeeded
    /\ ~IsAbs(ret.args.path)
    /\ PinPath(ret.prog) = <<>>
    /\ \E q \in Progs \ {ret.prog} : PinPath(q) = Cwd \o <<"/">> \o <<"pin">>

\* C10: an attach operation that returns an error returns a nil link and leaves
\* the module's link list as it was; one that succeeds leaves the entries of
\* the list in place and adds at most one.
C10_AttachFrame ==
    [][(ret'.op \in LinkOps /\ ~ret'.panicked) =>
          /\ ret'.err # NilErr => (ret'.link = NilLink /\ links' = links)
          /\ Len(links') <= Len(links) + 1
          /\ SubSeq(links', 1, Len(links)) = links]_vars

\* C10 (witness): AttachCgroupLegacy returned an error while the module's list
\* held a link.
C10_Witness ==
    /\ ret.op = "AttachCgroupLegacy"
    /\ Failed
    /\ Len(links) = 1

\* C11: after any sequence of Pin and Unpin calls on one program, PinPath() is
\* non-empty exactly when the program is pinned at some path, and a non-empty
\* PinPath() names a path at which the program is pinned.
C11_PinPathNamesAPin ==
    /\ PinPath(DefaultProg) # <<>> <=> pins[DefaultProg] # {}
    /\ PinPath(DefaultProg) # <<>> => Resolve(PinPath(DefaultProg)) \in pins[DefaultProg]

\* C12: when two attach operations on programs of one module run at the same
\* time and both succeed, both links they returned are in the module's list
\* once both have returned.
C12_NoLostAppend ==
    (\A g \in Goroutines : goroutines[g].pc = "returned" /\ goroutines[g].err = NilErr)
        => \A g \in Goroutines : goroutines[g].link \in Tracked

====
